---- MODULE Spec2Model ----
(***************************************************************************)
(* Model of src/app.py: the card-price resolution pipeline.                *)
(*                                                                         *)
(*   add_filters            merges filter parameters into a URL's query    *)
(*   find_product_url       search request -> canonical product URL        *)
(*   extract_lowest_price   anchor-phrase / ancestor price heuristic       *)
(*   extract_median_price   middle row of the offers table                 *)
(*   get_prices_for_query   the sequential pipeline                        *)
(*   get_prices             the POST /getPrices handler                    *)
(*                                                                         *)
(* Strings are drawn from small vocabularies; what the code asks of a      *)
(* string (does it contain an anchor phrase, a currency marker, what does  *)
(* PRICE_REGEX match in it, what does it percent-decode to) is given by    *)
(* operators over those vocabularies.  A URL is a record of its origin,    *)
(* its path and the '&'-separated segments of its query string.            *)
(***************************************************************************)
EXTENDS Integers, Sequences, FiniteSets, TLC

VARIABLES
    \* ---- the request pipeline (get_prices / get_prices_for_query) ----
    pc,           \* position of the handler
    data,         \* the request's JSON body
    located,      \* how find_product_url ended
    product_url,  \* get_prices_for_query's local product_url
    filtered_url, \* get_prices_for_query's local filtered_url
    median_url,   \* get_prices_for_query's local median_url
    html_lowest,  \* body of the lowest-price fetch
    html_median,  \* body of the median-price fetch
    lowest,       \* extract_lowest_price's return value
    median,       \* extract_median_price's return value
    calls,        \* the network calls issued so far, with their outcome
    response,     \* what get_prices answered
    \* ---- a function applied on its own ----
    fpc,          \* position of the function under study
    fin,          \* its input
    fout          \* its outputs

vars == <<pc, data, located, product_url, filtered_url, median_url,
          html_lowest, html_median, lowest, median, calls, response,
          fpc, fin, fout>>

pipeVars == <<pc, data, located, product_url, filtered_url, median_url,
              html_lowest, html_median, lowest, median, calls, response>>

funVars == <<fpc, fin, fout>>

\* Python's None, and "no value yet" of a model variable.
None == "None"
Unset == "unset"

Range(s) == {s[i] : i \in DOMAIN s}

Idx(s) == 1..Len(s)

\* All sequences over S of length at most n.
SeqsUpTo(S, n) == UNION {[1..k -> S] : k \in 0..n}

(***************************************************************************)
(* Bounds                                                                  *)
(***************************************************************************)
MaxParams == 2
MaxFilters == 2

(***************************************************************************)
(* URLs and query strings                                                  *)
(***************************************************************************)

\* urllib.parse.unquote applied after '+' -> ' ' (what parse_qsl does to
\* every name and value).
Unquote(s) ==
    CASE s = "%31" -> "1"
      [] s = "%62" -> "b"
      [] s = "x%20y" -> "x y"
      [] s = "x+y" -> "x y"
      [] s = "Pikachu+V" -> "Pikachu V"
      [] OTHER -> s

\* urllib.parse.quote_plus (urlencode's quote_via).
QuotePlus(s) ==
    CASE s = "x y" -> "x+y"
      [] s = "Pikachu V" -> "Pikachu+V"
      [] OTHER -> s

\* One '&'-separated segment of a query string: name=value when eq, the
\* bare name (no '=') otherwise.
Segment(n, v, e) == [name |-> n, value |-> v, eq |-> e]

RECURSIVE parse_qsl(_)
\* urllib.parse.parse_qsl with its defaults (keep_blank_values=False,
\* strict_parsing=False): a segment without '=' or with an empty value is
\* skipped; names and values are decoded.
parse_qsl(q) ==
    IF q = <<>> THEN <<>>
    ELSE LET p == Head(q)
             rest == parse_qsl(Tail(q))
         IN IF p.eq /\ p.value # ""
            THEN <<[name |-> Unquote(p.name), value |-> Unquote(p.value)]>> \o rest
            ELSE rest

\* A Python dict (insertion-ordered) from name to list of values:
\* a sequence of [name, values] with distinct names.
DictKeys(d) == {d[i].name : i \in Idx(d)}

\* parse_qs's  parsed_result[name].append(value) / parsed_result[name] = [value]
DictAppend(d, k, v) ==
    IF k \in DictKeys(d)
    THEN [i \in Idx(d) |-> IF d[i].name = k
                           THEN [d[i] EXCEPT !.values = Append(@, v)]
                           ELSE d[i]]
    ELSE Append(d, [name |-> k, values |-> <<v>>])

RECURSIVE DictFromPairs(_, _)
DictFromPairs(d, pairs) ==
    IF pairs = <<>> THEN d
    ELSE DictFromPairs(DictAppend(d, Head(pairs).name, Head(pairs).value), Tail(pairs))

\* urllib.parse.parse_qs
parse_qs(q) == DictFromPairs(<<>>, parse_qsl(q))

\* query[k] = [v] : an existing key keeps its place, a new one goes last.
DictSet(d, k, v) ==
    IF k \in DictKeys(d)
    THEN [i \in Idx(d) |-> IF d[i].name = k
                           THEN [d[i] EXCEPT !.values = <<v>>]
                           ELSE d[i]]
    ELSE Append(d, [name |-> k, values |-> <<v>>])

RECURSIVE ApplyFilters(_, _)
\* for k, v in filters.items(): query[k] = [v]
ApplyFilters(d, filters) ==
    IF filters = <<>> THEN d
    ELSE ApplyFilters(DictSet(d, Head(filters).k, Head(filters).v), Tail(filters))

RECURSIVE urlencode(_)
\* urllib.parse.urlencode(query, doseq=True): name=value for every value of
\* every key, in the dict's order.
urlencode(d) ==
    IF d = <<>> THEN <<>>
    ELSE LET e == Head(d)
         IN [i \in Idx(e.values) |->
                Segment(QuotePlus(e.name), QuotePlus(e.values[i]), TRUE)]
            \o urlencode(Tail(d))

Url(o, p, q) == [origin |-> o, path |-> p, query |-> q]

\* add_filters(base_url, filters): urlparse, parse_qs, overwrite, urlencode,
\* urlunparse.  filters is the dict's items in order: a sequence of [k, v].
add_filters(base_url, filters) ==
    [base_url EXCEPT !.query = urlencode(ApplyFilters(parse_qs(base_url.query), filters))]

(***************************************************************************)
(* add_filters on its own                                                  *)
(***************************************************************************)
RawNames == {"a", "b", "%62"}
RawValues == {"", "1", "%31", "x%20y"}
FilterNames == {"b", "c"}
FilterValues == {"9", ""}

Segments ==
    {Segment(n, v, TRUE) : n \in RawNames, v \in RawValues}
        \cup {Segment(n, "", FALSE) : n \in RawNames}

Queries == SeqsUpTo(Segments, MaxParams)

\* A FilterSet: the items of a dict with unique keys.
FilterSets ==
    {f \in SeqsUpTo({[k |-> k, v |-> v] : k \in FilterNames, v \in FilterValues}, MaxFilters) :
        \A i, j \in Idx(f) : i # j => f[i].k # f[j].k}

PipeIdle ==
    /\ pc = "idle"
    /\ data = Unset
    /\ located = Unset
    /\ product_url = Unset
    /\ filtered_url = Unset
    /\ median_url = Unset
    /\ html_lowest = Unset
    /\ html_median = Unset
    /\ lowest = Unset
    /\ median = Unset
    /\ calls = <<>>
    /\ response = Unset

InitCompose ==
    /\ PipeIdle
    /\ fpc = "start"
    /\ fin \in {[url |-> Url("https://www.cardmarket.com", "/fr/Pokemon/Products/Singles/A", q),
                 filters |-> f] : q \in Queries, f \in FilterSets}
    /\ fout = <<>>

\* compose(u, F)
Compose ==
    /\ fpc = "start"
    /\ fout' = <<add_filters(fin.url, fin.filters)>>
    /\ fpc' = "once"
    /\ UNCHANGED <<fin, pipeVars>>

\* compose(compose(u, F), F)
ComposeAgain ==
    /\ fpc = "once"
    /\ fout' = Append(fout, add_filters(fout[1], fin.filters))
    /\ fpc' = "twice"
    /\ UNCHANGED <<fin, pipeVars>>

NextCompose == Compose \/ ComposeAgain

SpecCompose == InitCompose /\ [][NextCompose]_vars

\* Every syntactic parameter of a query string, blank ones included
\* (name, decoded value), in order.
AllParams(q) ==
    [i \in Idx(q) |-> [name |-> Unquote(q[i].name), value |-> Unquote(q[i].value)]]

ValuesOf(params, n) ==
    LET keep == {i \in Idx(params) : params[i].name = n}
        RECURSIVE Pick(_)
        Pick(i) == IF i > Len(params) THEN <<>>
                   ELSE IF i \in keep THEN <<params[i].value>> \o Pick(i + 1)
                   ELSE Pick(i + 1)
    IN Pick(1)

ParamNames(params) == {params[i].name : i \in Idx(params)}

FilterKeys(f) == {f[i].k : i \in Idx(f)}

FilterValue(f, key) == LET i == CHOOSE i \in Idx(f) : f[i].k = key IN f[i].v

\* C1: composing F onto u keeps every parameter of u whose name is not a key
\* of F, with its original values, and holds every key k of F exactly once
\* with value F[k].
C1_ComposePreservesAndOverwrites ==
    fpc # "start" =>
        LET before == AllParams(fin.url.query)
            after == AllParams(fout[1].query)
        IN /\ \A n \in ParamNames(before) \ FilterKeys(fin.filters) :
                  ValuesOf(after, n) = ValuesOf(before, n)
           /\ \A k2 \in FilterKeys(fin.filters) :
                  ValuesOf(after, k2) = <<FilterValue(fin.filters, k2)>>

\* C7: composing the same FilterSet twice gives what composing it once gives.
C7_ComposeIdempotent ==
    fpc = "twice" => fout[2] = fout[1]

(***************************************************************************)
(* Documents: what BeautifulSoup(html, "html.parser") gives the extractors *)
(***************************************************************************)
MaxTexts == 3
MaxRows == 5

PRICE_TREND_ANCHORS ==
    << "tendance des prix", "prix moyen", "articles disponibles",
       "price trend", "average price", "available items",
       "preistrend", "durchschnittspreis", "verfügbare artikel",
       "andamento del prezzo", "prezzo medio", "articoli disponibili",
       "tendencia de precios", "precio medio", "artículos disponibles",
       "prijstrend", "gemiddelde prijs", "beschikbare artikelen" >>

\* str.casefold
Casefold(s) ==
    CASE s = "Tendance des prix" -> "tendance des prix"
      [] s = "Price Trend" -> "price trend"
      [] s = "Tendance des prix 1,00 €" -> "tendance des prix 1,00 €"
      [] s = "Price Trend 2,50 €" -> "price trend 2,50 €"
      [] s = "Vendeur" -> "vendeur"
      [] OTHER -> s

\* Python's  sub in s  over the vocabulary: the currency marker is part of
\* the price texts, an anchor phrase is part of the labels that spell it.
InStr(sub, s) ==
    CASE sub = "€" -> s \in {"1,00 €", "2,50 €", " 2,50 € ", "10,00 €", "port en €",
                             "Tendance des prix 1,00 €", "Price Trend 2,50 €"}
      [] sub = "tendance des prix" -> s \in {"tendance des prix", "tendance des prix 1,00 €"}
      [] sub = "price trend" -> s \in {"price trend", "price trend 2,50 €"}
      [] OTHER -> sub = s

\* PRICE_REGEX.search(s): m.group(0), or None when nothing matches.
\* "port en €" carries the marker with no digits before it.
PRICE_REGEX_search(s) ==
    CASE s = "1,00 €" -> "1,00 €"
      [] s = "2,50 €" -> "2,50 €"
      [] s = " 2,50 € " -> "2,50 €"
      [] s = "10,00 €" -> "10,00 €"
      [] s = "Tendance des prix 1,00 €" -> "1,00 €"
      [] s = "Price Trend 2,50 €" -> "2,50 €"
      [] OTHER -> None

\* str.strip
Strip(s) ==
    CASE s = " 2,50 € " -> "2,50 €"
      [] OTHER -> s

(***************************************************************************)
(* The page read by extract_lowest_price: its strings in document order,   *)
(* each directly inside div1 or div2, where  doc > div1, doc > div2  or,   *)
(* with nest,  doc > div1 > div2.  "doc" is the BeautifulSoup object,      *)
(* whose parent is None.  A string is a NavigableString or a Comment:      *)
(* find/find_all(string=...) see both, get_text() only the first.          *)
(***************************************************************************)
Elements == {"doc", "div1", "div2"}

TextElements == {"div1", "div2"}

TextNode(e, s, t) == [el |-> e, s |-> s, type |-> t]

\* node.parent
Parent(doc, e) ==
    CASE e = "div1" -> "doc"
      [] e = "div2" -> IF doc.nest THEN "div1" ELSE "doc"
      [] OTHER -> None

RECURSIVE IsInside(_, _, _)
\* e is anc or a descendant of anc
IsInside(doc, e, anc) ==
    IF e = None THEN FALSE
    ELSE IF e = anc THEN TRUE
    ELSE IsInside(doc, Parent(doc, e), anc)

RECURSIVE SelectIdx(_, _, _)
\* The indices i..Len(s) found in keep, ascending.
SelectIdx(n, keep, i) ==
    IF i > n THEN <<>>
    ELSE IF i \in keep THEN <<i>> \o SelectIdx(n, keep, i + 1)
    ELSE SelectIdx(n, keep, i + 1)

\* soup.find(string=lambda t: isinstance(t, str) and anchor in t.casefold()):
\* the first string of the document holding the anchor, 0 for None.
FindAnchorString(doc, anchor) ==
    LET hits == {i \in Idx(doc.nodes) : InStr(anchor, Casefold(doc.nodes[i].s))}
    IN IF hits = {} THEN 0 ELSE CHOOSE i \in hits : \A j \in hits : i <= j

\* any(kw in cur.get_text(" ", strip=True).casefold() for kw in keywords)
TextHasKeyword(doc, cur, keywords) ==
    \E i \in Idx(doc.nodes) :
        /\ IsInside(doc, doc.nodes[i].el, cur)
        /\ doc.nodes[i].type = "NavigableString"
        /\ \E k \in Idx(keywords) : InStr(keywords[k], Casefold(doc.nodes[i].s))

RECURSIVE smallest_common_ancestor_with_keywords(_, _, _)
smallest_common_ancestor_with_keywords(doc, node, keywords) ==
    IF node = None THEN None
    ELSE IF TextHasKeyword(doc, node, keywords) THEN node
    ELSE smallest_common_ancestor_with_keywords(doc, Parent(doc, node), keywords)

\* container.find_all(string=lambda t: isinstance(t, str) and "€" in t),
\* each passed through PRICE_REGEX: the matches, in document order.
PricesIn(doc, container) ==
    LET keep == {i \in Idx(doc.nodes) :
                    /\ IsInside(doc, doc.nodes[i].el, container)
                    /\ InStr("€", doc.nodes[i].s)
                    /\ PRICE_REGEX_search(doc.nodes[i].s) # None}
        at == SelectIdx(Len(doc.nodes), keep, 1)
    IN [j \in Idx(at) |-> Strip(PRICE_REGEX_search(doc.nodes[at[j]].s))]

\* The container extract_lowest_price searches for the string at index i.
ContainerOf(doc, i) ==
    LET parent == doc.nodes[i].el
        found == smallest_common_ancestor_with_keywords(doc, parent, PRICE_TREND_ANCHORS)
    IN IF found = None THEN parent ELSE found

\* The anchors with the English phrases ahead of the French ones.
AnchorOrder_EnglishFirst ==
    << "price trend", "average price", "available items",
       "tendance des prix", "prix moyen", "articles disponibles",
       "preistrend", "durchschnittspreis", "verfügbare artikel",
       "andamento del prezzo", "prezzo medio", "articoli disponibili",
       "tendencia de precios", "precio medio", "artículos disponibles",
       "prijstrend", "gemiddelde prijs", "beschikbare artikelen" >>

\* The order in which extract_lowest_price tries the anchors.
AnchorOrder == PRICE_TREND_ANCHORS

RECURSIVE LowestFromAnchor(_, _)
\* for anchor in PRICE_TREND_ANCHORS: ... from the k-th anchor on, then the
\* document-wide scan, then None.
LowestFromAnchor(doc, k) ==
    IF k > Len(AnchorOrder)
    THEN LET all == PricesIn(doc, "doc")
         IN IF all # <<>> THEN all[1] ELSE None
    ELSE LET i == FindAnchorString(doc, AnchorOrder[k])
         IN IF i = 0 THEN LowestFromAnchor(doc, k + 1)
            ELSE LET prices == PricesIn(doc, ContainerOf(doc, i))
                 IN IF prices # <<>> THEN prices[1]
                    ELSE LowestFromAnchor(doc, k + 1)

extract_lowest_price(doc) == LowestFromAnchor(doc, 1)

LowestTexts ==
    { <<"Tendance des prix", "NavigableString">>,
      <<"Price Trend", "NavigableString">>,
      <<"Tendance des prix 1,00 €", "NavigableString">>,
      <<"Price Trend 2,50 €", "NavigableString">>,
      <<"prix moyen", "Comment">>,
      <<"10,00 €", "NavigableString">>,
      <<"port en €", "NavigableString">> }

LowestNodes == {TextNode(e, t[1], t[2]) : e \in TextElements, t \in LowestTexts}

\* The strings of an element and of what it contains are one stretch of
\* the document.
WellNested(doc) ==
    \A e \in Elements \ {"doc"} :
        \A i, j, k \in Idx(doc.nodes) :
            (i < j /\ j < k /\ IsInside(doc, doc.nodes[i].el, e)
                            /\ IsInside(doc, doc.nodes[k].el, e))
                => IsInside(doc, doc.nodes[j].el, e)

LowestDocsUpTo(n) ==
    {d \in [nest : BOOLEAN, nodes : SeqsUpTo(LowestNodes, n)] : WellNested(d)}

(***************************************************************************)
(* The page read by extract_median_price: whether a div.table-body exists, *)
(* its direct div children (rows) and the div.article-row elements deeper  *)
(* inside it (article_rows); each row is its strings in document order.    *)
(***************************************************************************)
RowKinds ==
    { <<"Vendeur">>,
      <<"Vendeur", "1,00 €">>,
      <<" 2,50 € ", "port en €">>,
      <<"port en €", "10,00 €">>,
      <<"10,00 €">> }

\* len(rows) // 2: the upper-middle row of an even count.
median_index_UpperMiddle(n) == n \div 2

\* (len(rows) + 1) // 2 - 1, clamped to at least 0 (a 0-based index).
median_index(n) ==
    LET m == ((n + 1) \div 2) - 1
    IN IF m < 0 THEN 0 ELSE m

\* [s.strip() for s in median_row.stripped_strings if "€" in s]
price_texts(row) ==
    LET keep == {i \in Idx(row) : InStr("€", Strip(row[i]))}
        at == SelectIdx(Len(row), keep, 1)
    IN [j \in Idx(at) |-> Strip(Strip(row[at[j]]))]

\* The rows extract_median_price counts.
RowsOf(doc) ==
    IF doc.rows # <<>> THEN doc.rows ELSE doc.article_rows

\* extract_median_price returning "" where the code returns None.
extract_median_price_EmptyString(doc) ==
    IF ~doc.table_body THEN ""
    ELSE LET rows == RowsOf(doc)
         IN IF rows = <<>> THEN ""
            ELSE LET texts == price_texts(rows[median_index(Len(rows)) + 1])
                 IN IF texts # <<>> THEN texts[1] ELSE ""

extract_median_price(doc) ==
    IF ~doc.table_body THEN None
    ELSE LET rows == RowsOf(doc)
         IN IF rows = <<>> THEN None
            ELSE LET texts == price_texts(rows[median_index(Len(rows)) + 1])
                 IN IF texts # <<>> THEN texts[1] ELSE None

MedianDocsUpTo(n) ==
    {[table_body |-> FALSE, rows |-> <<>>, article_rows |-> <<>>]}
        \cup {[table_body |-> TRUE, rows |-> rs, article_rows |-> <<>>] :
                rs \in SeqsUpTo(RowKinds, n)}
        \cup {[table_body |-> TRUE, rows |-> <<>>, article_rows |-> rs] :
                rs \in SeqsUpTo(RowKinds, n)}
        \cup {[table_body |-> TRUE, rows |-> <<rw>>, article_rows |-> <<rw2, rw2>>] :
                rw \in RowKinds, rw2 \in RowKinds}

(***************************************************************************)
(* find_product_url                                                        *)
(***************************************************************************)
MaxLinks == 2

Origin == "https://www.cardmarket.com"

\* SEARCH_BASE + quote_plus(card_id)
SearchUrl(card_id) ==
    Url(Origin, "/fr/Pokemon/Products/Search",
        <<Segment("category", "-1", TRUE), Segment("searchString", QuotePlus(card_id), TRUE)>>)

\* "/Products/Singles/" in path
HasSingles(path) ==
    path \in {"/fr/Pokemon/Products/Singles/A", "/en/Pokemon/Products/Singles/B"}

\* "/Products/Singles/" in r.url
IsProductPage(url) == HasSingles(url.path)

\* urljoin("https://www.cardmarket.com", href): a relative href (no origin)
\* is put under the base, an absolute one is kept.
urljoin(base, href) ==
    IF href.origin = "" THEN [href EXCEPT !.origin = base] ELSE href

\* The three selectors of find_product_url, by the element the anchor must
\* be inside of ("" for none); all three ask a[href*='/Products/Singles/'].
Selectors == <<"table#ProductsTable", "div#ProductsTable", "">>

\* soup.select_one(sel): the first anchor of the document matching, 0 for None.
\* An anchor is [inside: the #ProductsTable element it is in, or "body";
\* href: its href attribute].
select_one(links, sel) ==
    LET hits == {i \in Idx(links) :
                    /\ HasSingles(links[i].href.path)
                    /\ (sel = "" \/ links[i].inside = sel)}
    IN IF hits = {} THEN 0 ELSE CHOOSE i \in hits : \A j \in hits : i <= j

Return(v) == [kind |-> "return", value |-> v]

Raise(e, m) == [kind |-> "raise", exc |-> e, msg |-> m]

\* f"Aucun produit trouvé pour '{card_id}'."
NotFoundMessage(card_id) ==
    CASE card_id = "Charizard" -> "Aucun produit trouvé pour 'Charizard'."
      [] card_id = "Pikachu V" -> "Aucun produit trouvé pour 'Pikachu V'."
      [] OTHER -> "Aucun produit trouvé pour ''."

\* str() of the HTTPError r.raise_for_status() raises
HTTPErrorMessage(status_code) ==
    CASE status_code = 404 -> "404 Client Error"
      [] status_code = 500 -> "500 Server Error"
      [] OTHER -> "HTTP Error"

RECURSIVE FirstSelected(_, _, _)
\* for sel in [...]: a = soup.select_one(sel); if a and a.get("href"): return
FirstSelected(links, sels, k) ==
    IF k > Len(sels) THEN 0
    ELSE LET a == select_one(links, sels[k])
         IN IF a # 0 THEN a ELSE FirstSelected(links, sels, k + 1)

\* A response of sess.get: ok = FALSE is a network failure (the call raises).
NetworkFailure == [ok |-> FALSE, url |-> Url("", "", <<>>), status_code |-> 0, body |-> <<>>]

HttpResponse(u, c, b) == [ok |-> TRUE, url |-> u, status_code |-> c, body |-> b]

\* find_product_url testing the 403 status before the final URL.
find_product_url_StatusFirst(card_id, r) ==
    IF ~r.ok THEN Raise("ConnectionError", "connection failed")
    ELSE IF r.status_code = 403 THEN Raise("SystemExit", "403 Forbidden : accès bloqué.")
    ELSE IF IsProductPage(r.url) THEN Return(r.url)
    ELSE IF r.status_code >= 400 /\ r.status_code < 600
         THEN Raise("HTTPError", HTTPErrorMessage(r.status_code))
    ELSE LET a == FirstSelected(r.body, Selectors, 1)
         IN IF a # 0 THEN Return(urljoin(Origin, r.body[a].href))
            ELSE Raise("RuntimeError", NotFoundMessage(card_id))

\* find_product_url(card_id, sess) given the response r of sess.get(url).
find_product_url(card_id, r) ==
    IF ~r.ok THEN Raise("ConnectionError", "connection failed")
    ELSE IF IsProductPage(r.url) THEN Return(r.url)
    ELSE IF r.status_code = 403 THEN Raise("SystemExit", "403 Forbidden : accès bloqué.")
    ELSE IF r.status_code >= 400 /\ r.status_code < 600
         THEN Raise("HTTPError", HTTPErrorMessage(r.status_code))
    ELSE LET a == FirstSelected(r.body, Selectors, 1)
         IN IF a # 0 THEN Return(urljoin(Origin, r.body[a].href))
            ELSE Raise("RuntimeError", NotFoundMessage(card_id))

CardIds == {"Charizard", "Pikachu V"}

ProductUrls ==
    { Url(Origin, "/fr/Pokemon/Products/Singles/A", <<>>),
      Url(Origin, "/en/Pokemon/Products/Singles/B",
          <<Segment("language", "1", TRUE), Segment("isFoil", "Y", TRUE)>>) }

Hrefs ==
    { Url("", "/fr/Pokemon/Products/Singles/A", <<>>),
      Url(Origin, "/en/Pokemon/Products/Singles/B", <<Segment("language", "1", TRUE)>>),
      Url("", "/fr/Pokemon/Help", <<>>) }

Links == {[inside |-> w, href |-> h] :
            w \in {"table#ProductsTable", "div#ProductsTable", "body"}, h \in Hrefs}

StatusCodes == {200, 403, 404, 500}

SearchResponses(card_id) ==
    {HttpResponse(u, c, b) : u \in ProductUrls \cup {SearchUrl(card_id)},
                             c \in StatusCodes,
                             b \in SeqsUpTo(Links, MaxLinks)}
        \cup {NetworkFailure}

(***************************************************************************)
(* find_product_url on its own                                             *)
(***************************************************************************)
InitLocate ==
    /\ PipeIdle
    /\ fpc = "start"
    /\ \E c \in CardIds : fin \in {[card_id |-> c, r |-> rr] : rr \in SearchResponses(c)}
    /\ fout = <<>>

Locate ==
    /\ fpc = "start"
    /\ fout' = <<find_product_url(fin.card_id, fin.r)>>
    /\ fpc' = "done"
    /\ UNCHANGED <<fin, pipeVars>>

NextLocate == Locate

SpecLocate == InitLocate /\ [][NextLocate]_vars

(***************************************************************************)
(* get_prices_for_query and the /getPrices handler                         *)
(***************************************************************************)
DEFAULT_FILTERS ==
    << [k |-> "sellerCountry", v |-> "12"],
       [k |-> "language", v |-> "2"],
       [k |-> "minCondition", v |-> "2"] >>

median_filters ==
    << [k |-> "sellerCountry", v |-> "12"],
       [k |-> "sellerType", v |-> "1"],
       [k |-> "language", v |-> "2"],
       [k |-> "minCondition", v |-> "2"] >>

\* filtered_url = add_filters(product_url, DEFAULT_FILTERS)
FilteredUrl(purl) == add_filters(purl, DEFAULT_FILTERS)

\* median_url composed from filtered_url instead of product_url.
MedianUrl_FromFiltered(purl, furl) == add_filters(furl, median_filters)

\* median_url = add_filters(product_url, median_filters)
MedianUrl(purl, furl) == add_filters(purl, median_filters)

\* The value passed on as it is, None included.
OrNA_PassNone(x) == x

\* x or "N/A"
OrNA(x) == IF x = None \/ x = "" THEN "N/A" ELSE x

\* Python's str() of None or of a string
Str(x) == x

\* SystemExit derives from BaseException, not from Exception.
IsException(exc) == exc # "SystemExit"

Json(code, b) == [kind |-> "json", status |-> code, body |-> b]

\* The exception left get_prices: the handler answered nothing.
Uncaught(e, m) == [kind |-> "uncaught", status |-> 0, body |-> [exc |-> e, msg |-> m]]

\* except Exception as e: return jsonify({"error": str(e)}), 500
HandleException(exc, msg) ==
    IF IsException(exc) THEN Json(500, [error |-> msg]) ELSE Uncaught(exc, msg)

\* The pages the two filtered fetches may answer with.
LowestPages ==
    { [nest |-> FALSE, nodes |-> <<>>],
      [nest |-> FALSE, nodes |-> <<TextNode("div1", "Tendance des prix", "NavigableString")>>],
      [nest |-> FALSE, nodes |-> <<TextNode("div1", "port en €", "NavigableString")>>],
      [nest |-> FALSE, nodes |-> <<TextNode("div1", "Tendance des prix", "NavigableString"),
                                   TextNode("div1", "1,00 €", "NavigableString")>>],
      [nest |-> FALSE, nodes |-> <<TextNode("doc", "2,50 €", "NavigableString")>>] }

MedianPages ==
    { [table_body |-> FALSE, rows |-> <<>>, article_rows |-> <<>>],
      [table_body |-> TRUE, rows |-> <<>>, article_rows |-> <<>>],
      [table_body |-> TRUE, rows |-> << <<"Vendeur">> >>, article_rows |-> <<>>],
      [table_body |-> TRUE, rows |-> << <<"Vendeur", "1,00 €">>, <<" 2,50 € ", "port en €">>,
                                        <<"10,00 €">> >>, article_rows |-> <<>>],
      [table_body |-> TRUE, rows |-> <<>>, article_rows |-> << <<"10,00 €">> >>] }

FetchStatusCodes == {200, 404}

FetchResponses(pages) ==
    {HttpResponse(Url("", "", <<>>), c, b) : c \in FetchStatusCodes, b \in pages}
        \cup {NetworkFailure}

\* One network call: which, the URL asked, whether it came back, its status
\* and final URL.
Call(which, u, resp) ==
    [call |-> which, url |-> u, ok |-> resp.ok, status_code |-> resp.status_code,
     final |-> resp.url]

Init ==
    /\ pc = "request"
    /\ data \in {[query |-> q] : q \in CardIds \cup {"", None}}
    /\ located = Unset
    /\ product_url = Unset
    /\ filtered_url = Unset
    /\ median_url = Unset
    /\ html_lowest = Unset
    /\ html_median = Unset
    /\ lowest = Unset
    /\ median = Unset
    /\ calls = <<>>
    /\ response = Unset
    /\ fpc = "idle"
    /\ fin = Unset
    /\ fout = <<>>

\* not query
Falsy(q) == q = None \/ q = ""

\* get_prices, lines 160-163: no query, answer 400.
MissingQuery ==
    /\ pc = "request"
    /\ Falsy(data.query)
    /\ response' = Json(400, [error |-> "Missing 'query' field"])
    /\ pc' = "done"
    /\ UNCHANGED <<data, located, product_url, filtered_url, median_url,
                   html_lowest, html_median, lowest, median, calls, funVars>>

\* get_prices -> get_prices_for_query -> find_product_url: the search request
\* and what follows it up to the next network call (line 145), or the
\* handler's answer when find_product_url raises.
SearchRequest ==
    /\ pc = "request"
    /\ ~Falsy(data.query)
    /\ \E resp \in SearchResponses(data.query) :
        LET found == find_product_url(data.query, resp)
        IN /\ calls' = Append(calls, Call("search", SearchUrl(data.query), resp))
           /\ located' = found
           /\ IF found.kind = "return"
              THEN /\ product_url' = found.value
                   /\ filtered_url' = FilteredUrl(found.value)
                   /\ pc' = "fetch_lowest"
                   /\ UNCHANGED response
              ELSE /\ response' = HandleException(found.exc, found.msg)
                   /\ pc' = "done"
                   /\ UNCHANGED <<product_url, filtered_url>>
    /\ UNCHANGED <<data, median_url, html_lowest, html_median, lowest, median, funVars>>

\* Lines 145-151: fetch the lowest-price page, extract, compose median_url.
FetchLowest ==
    /\ pc = "fetch_lowest"
    /\ \E resp \in FetchResponses(LowestPages) :
        /\ calls' = Append(calls, Call("lowest", filtered_url, resp))
        /\ IF resp.ok
           THEN /\ html_lowest' = resp.body
                /\ lowest' = extract_lowest_price(resp.body)
                /\ median_url' = MedianUrl(product_url, filtered_url)
                /\ pc' = "fetch_median"
                /\ UNCHANGED response
           ELSE /\ response' = HandleException("ConnectionError", "connection failed")
                /\ pc' = "done"
                /\ UNCHANGED <<html_lowest, lowest, median_url>>
    /\ UNCHANGED <<data, located, product_url, filtered_url, html_median, median, funVars>>

\* Lines 152-155 and 166-170: fetch the median-price page, extract, answer.
FetchMedian ==
    /\ pc = "fetch_median"
    /\ \E resp \in FetchResponses(MedianPages) :
        /\ calls' = Append(calls, Call("median", median_url, resp))
        /\ IF resp.ok
           THEN LET m == extract_median_price(resp.body)
                IN /\ html_median' = resp.body
                   /\ median' = m
                   /\ response' = Json(200, [lowest |-> Str(OrNA(lowest)),
                                             median |-> Str(OrNA(m)),
                                             url |-> filtered_url])
           ELSE /\ response' = HandleException("ConnectionError", "connection failed")
                /\ UNCHANGED <<html_median, median>>
        /\ pc' = "done"
    /\ UNCHANGED <<data, located, product_url, filtered_url, median_url,
                   html_lowest, lowest, funVars>>

Next == MissingQuery \/ SearchRequest \/ FetchLowest \/ FetchMedian

Spec == Init /\ [][Next]_vars

(***************************************************************************)
(* The extractors on their own: a page, the extractor that reads it, and   *)
(* the  x or "N/A"  get_prices_for_query applies to what it returns.       *)
(***************************************************************************)
InitExtract ==
    /\ PipeIdle
    /\ fpc = "start"
    /\ \/ \E d \in LowestDocsUpTo(MaxTexts) : fin = [extractor |-> "lowest", html |-> d]
       \/ \E d \in MedianDocsUpTo(MaxRows) : fin = [extractor |-> "median", html |-> d]
    /\ fout = <<>>

\* lowest = extract_lowest_price(html_lowest)
ExtractLowest ==
    /\ fpc = "start"
    /\ fin.extractor = "lowest"
    /\ fout' = <<extract_lowest_price(fin.html)>>
    /\ fpc' = "extracted"
    /\ UNCHANGED <<fin, pipeVars>>

\* median = extract_median_price(html_median)
ExtractMedian ==
    /\ fpc = "start"
    /\ fin.extractor = "median"
    /\ fout' = <<extract_median_price(fin.html)>>
    /\ fpc' = "extracted"
    /\ UNCHANGED <<fin, pipeVars>>

\* return lowest or "N/A", median or "N/A", filtered_url
ReturnOrNA ==
    /\ fpc = "extracted"
    /\ fout' = Append(fout, OrNA(fout[1]))
    /\ fpc' = "returned"
    /\ UNCHANGED <<fin, pipeVars>>

NextExtract == ExtractLowest \/ ExtractMedian \/ ReturnOrNA

SpecExtract == InitExtract /\ [][NextExtract]_vars

(***************************************************************************)
(* Properties of find_product_url (SpecLocate)                             *)
(***************************************************************************)
Least(S) == CHOOSE i \in S : \A j \in S : i <= j

\* The product links of a results page that lie inside the given element.
ProductLinksInside(links, where) ==
    {i \in Idx(links) : HasSingles(links[i].href.path) /\ links[i].inside = where}

ProductLinksAnywhere(links) ==
    {i \in Idx(links) : HasSingles(links[i].href.path)}

\* url is href resolved against the marketplace origin.
ResolvedFrom(url, href) ==
    /\ url.path = href.path
    /\ url.query = href.query
    /\ url.origin = (IF href.origin = "" THEN Origin ELSE href.origin)

\* C9: find_product_url decides in a fixed precedence: (1) a final URL that
\* is a product page is returned whatever the status; (2) otherwise 403 is
\* Blocked; (3) otherwise another 4xx/5xx status is a transport error;
\* (4) otherwise the first product link of the results table, else of the
\* results container, else of the document, resolved against the origin;
\* (5) otherwise NotFound, carrying the query.
C9_LocatePrecedence ==
    (fpc = "done" /\ fin.r.ok) =>
        LET resp == fin.r
            out == fout[1]
            tbl == ProductLinksInside(resp.body, "table#ProductsTable")
            dv == ProductLinksInside(resp.body, "div#ProductsTable")
            any == ProductLinksAnywhere(resp.body)
        IN IF IsProductPage(resp.url)
           THEN out.kind = "return" /\ out.value = resp.url
           ELSE IF resp.status_code = 403
           THEN out.kind = "raise" /\ out.exc = "SystemExit"
           ELSE IF resp.status_code \in 400..599
           THEN out.kind = "raise" /\ out.exc = "HTTPError"
           ELSE IF tbl # {}
           THEN out.kind = "return" /\ ResolvedFrom(out.value, resp.body[Least(tbl)].href)
           ELSE IF dv # {}
           THEN out.kind = "return" /\ ResolvedFrom(out.value, resp.body[Least(dv)].href)
           ELSE IF any # {}
           THEN out.kind = "return" /\ ResolvedFrom(out.value, resp.body[Least(any)].href)
           ELSE /\ out.kind = "raise"
                /\ out.exc = "RuntimeError"
                /\ out.msg = NotFoundMessage(fin.card_id)

\* A results page whose first product link is outside the results table and
\* whose second is inside it: the second, a relative href, is returned.
C9_Witness ==
    /\ fpc = "done"
    /\ fin.r.ok
    /\ fin.r.status_code = 200
    /\ ~IsProductPage(fin.r.url)
    /\ Len(fin.r.body) = 2
    /\ fin.r.body[1].inside = "body"
    /\ HasSingles(fin.r.body[1].href.path)
    /\ fin.r.body[2].inside = "table#ProductsTable"
    /\ fin.r.body[2].href = Url("", "/fr/Pokemon/Products/Singles/A", <<>>)
    /\ fout[1] = Return(Url(Origin, "/fr/Pokemon/Products/Singles/A", <<>>))

(***************************************************************************)
(* Properties of extract_median_price (SpecExtract)                        *)
(***************************************************************************)
\* The row counts 1..5 and the index the specification gives for each.
ExpectedMedianIndex == <<0, 0, 1, 1, 2>>

\* C4: with n >= 1 rows the row at index floor((n + 1) / 2) - 1 is chosen:
\* inside 0..n-1, the middle row for odd n, the lower-middle row for even n,
\* 0,0,1,1,2 for n = 1..5; the result is that row's first currency-marked
\* text, trimmed.
C4_MedianRow ==
    (fpc # "start" /\ fin.extractor = "median" /\ fin.html.table_body
        /\ RowsOf(fin.html) # <<>>) =>
        LET rows == RowsOf(fin.html)
            n == Len(rows)
            mid == CHOOSE m \in 0..(n - 1) : 2 * m + 1 = n \/ 2 * m + 2 = n
            row == rows[mid + 1]
            marked == {i \in Idx(row) : InStr("€", row[i])}
        IN /\ median_index(n) = mid
           /\ n <= Len(ExpectedMedianIndex) => mid = ExpectedMedianIndex[n]
           /\ IF marked # {} THEN fout[1] = Strip(row[Least(marked)])
                             ELSE fout[1] = None

\* Three rows priced 1,00 / 2,50 / 10,00 in that order give "2,50 €".
C4_Witness ==
    /\ fpc = "extracted"
    /\ fin.extractor = "median"
    /\ fin.html.table_body
    /\ fin.html.rows = << <<"Vendeur", "1,00 €">>, <<" 2,50 € ", "port en €">>, <<"10,00 €">> >>
    /\ fout[1] = "2,50 €"

(***************************************************************************)
(* Properties of extract_lowest_price (SpecExtract)                        *)
(***************************************************************************)
\* The anchors (indices of PRICE_TREND_ANCHORS) some string of doc holds.
PresentAnchors(doc) ==
    {k \in Idx(PRICE_TREND_ANCHORS) : FindAnchorString(doc, PRICE_TREND_ANCHORS[k]) # 0}

AnchorContainer(doc, k) ==
    ContainerOf(doc, FindAnchorString(doc, PRICE_TREND_ANCHORS[k]))

\* The page holds "tendance des prix" (first of the list) and "price trend"
\* (fourth) and no other anchor phrase.
HoldsBothPhrases(doc) == PresentAnchors(doc) = {1, 4}

\* C5 as stated: with "tendance des prix" and "price trend" both present, a
\* price that is returned comes from the container of "tendance des prix",
\* the one first in priority.
C5_OnlyFirstAnchorContainer ==
    (fpc # "start" /\ fin.extractor = "lowest" /\ HoldsBothPhrases(fin.html)
        /\ fout[1] # None) =>
        fout[1] \in Range(PricesIn(fin.html, AnchorContainer(fin.html, 1)))

\* C5, amended: with two anchor phrases present, the result is the first
\* price of the container of the first anchor, in priority order, whose
\* container holds a price; a lower-priority anchor's container is used only
\* when no higher-priority one holds a price; when none does, the result is
\* the first price of the whole document, or None.
C5_FirstAnchorWithPrice ==
    (fpc # "start" /\ fin.extractor = "lowest"
        /\ Cardinality(PresentAnchors(fin.html)) >= 2) =>
        LET doc == fin.html
            priced == {k \in PresentAnchors(doc) :
                          PricesIn(doc, AnchorContainer(doc, k)) # <<>>}
        IN IF priced # {}
           THEN fout[1] = PricesIn(doc, AnchorContainer(doc, Least(priced)))[1]
           ELSE IF PricesIn(doc, "doc") # <<>>
           THEN fout[1] = PricesIn(doc, "doc")[1]
           ELSE fout[1] = None

\* "Price Trend" and its price come first in the page, "Tendance des prix"
\* and its price second, in another container: the price beside "Tendance
\* des prix" is returned.
C5_Witness ==
    /\ fpc = "extracted"
    /\ fin.extractor = "lowest"
    /\ fin.html.nest = FALSE
    /\ fin.html.nodes = << TextNode("div1", "Price Trend 2,50 €", "NavigableString"),
                      TextNode("div2", "Tendance des prix", "NavigableString"),
                      TextNode("div2", "10,00 €", "NavigableString") >>
    /\ fout[1] = "10,00 €"

\* No string of the page holds the currency marker.
NoCurrencyInLowestPage(doc) ==
    \A i \in Idx(doc.nodes) : ~InStr("€", doc.nodes[i].s)

NoCurrencyInMedianPage(doc) ==
    \A rows \in {doc.rows, doc.article_rows} :
        \A i \in Idx(rows) : \A j \in Idx(rows[i]) : ~InStr("€", rows[i][j])

NoCurrencyAnywhere(in) ==
    IF in.extractor = "lowest" THEN NoCurrencyInLowestPage(in.html)
                               ELSE NoCurrencyInMedianPage(in.html)

CallOrder == <<"search", "lowest", "median">>

\* The median-price fetch came back: html_median and median are set.
MedianFetched == Len(calls) >= 3 /\ calls[3].ok

\* C2 as stated: a 403 on the search request (final URL not a product page)
\* is answered with HTTP 500 and an {"error": message} body.
C2_BlockedIs500 ==
    (pc = "done" /\ Len(calls) >= 1 /\ calls[1].ok /\ calls[1].status_code = 403
        /\ ~IsProductPage(calls[1].final)) =>
        /\ response.kind = "json"
        /\ response.status = 500
        /\ response.body = [error |-> "403 Forbidden : accès bloqué."]

\* The price texts a page can give each extractor.
LowestPricesOf(doc) ==
    {PRICE_REGEX_search(doc.nodes[i].s) : i \in Idx(doc.nodes)} \ {None}

MedianPricesOf(doc) ==
    UNION {UNION {{Strip(rows[i][j]) : j \in {jj \in Idx(rows[i]) : InStr("€", rows[i][jj])}} :
                    i \in Idx(rows)} : rows \in {doc.rows, doc.article_rows}}

\* C6: once find_product_url has returned and both pages were fetched, the
\* request succeeds whatever the pages hold: each of lowest and median is a
\* price text of its page or "N/A", "N/A" exactly when its extractor found
\* nothing, independently of the other.
C6_ExtractionMissDegrades ==
    (pc = "done" /\ MedianFetched) =>
        /\ response.kind = "json"
        /\ response.status = 200
        /\ response.body.lowest \in LowestPricesOf(html_lowest) \cup {"N/A"}
        /\ response.body.median \in MedianPricesOf(html_median) \cup {"N/A"}
        /\ (response.body.lowest = "N/A") = (lowest = None)
        /\ (response.body.median = "N/A") = (median = None)

\* A lowest price was found, the median was not: still a 200.
C6_Witness ==
    /\ pc = "done"
    /\ MedianFetched
    /\ response.status = 200
    /\ response.body.lowest = "1,00 €"
    /\ response.body.median = "N/A"
    /\ html_median.table_body

\* A call that failed: the network failed, or the status is not 2xx and it
\* is not the Blocked case nor a search that ended on a product page.
FailedCall(c) ==
    \/ ~c.ok
    \/ /\ c.status_code \notin 200..299
       /\ c.status_code # 403
       /\ ~(c.call = "search" /\ IsProductPage(c.final))

\* C8 as stated: a failed call on any of the three requests ends the request
\* at once with a failure response.
C8_FailedCallPropagates ==
    pc = "done" =>
        \A i \in Idx(calls) :
            FailedCall(calls[i]) =>
                /\ i = Len(calls)
                /\ response.kind = "json"
                /\ response.status = 500

\* C10: the calls are search, lowest-price fetch, median-price fetch, in that
\* order, each at most once and each after the previous one came back; the
\* product URL is located once, both filtered URLs are composed from it, and
\* the URL of the result is the lowest-price filtered URL.
C10_CallOrder ==
    /\ Len(calls) <= Len(CallOrder)
    /\ \A i \in Idx(calls) : calls[i].call = CallOrder[i]
    /\ \A i \in Idx(calls) : i < Len(calls) => calls[i].ok
    /\ Len(calls) >= 1 => calls[1].url = SearchUrl(data.query)
    /\ Len(calls) >= 2 =>
          /\ located.kind = "return"
          /\ calls[2].url = add_filters(located.value, DEFAULT_FILTERS)
    /\ Len(calls) >= 3 => calls[3].url = add_filters(located.value, median_filters)
    /\ (pc = "done" /\ response.status = 200) =>
          /\ Len(calls) = 3
          /\ response.body.url = calls[2].url

\* A full run from a product URL that already carried language=1.
C10_Witness ==
    /\ pc = "done"
    /\ response.status = 200
    /\ Len(calls) = 3
    /\ located.value.path = "/en/Pokemon/Products/Singles/B"
    /\ calls[3].url.query =
          << Segment("language", "2", TRUE), Segment("isFoil", "Y", TRUE),
             Segment("sellerCountry", "12", TRUE), Segment("sellerType", "1", TRUE),
             Segment("minCondition", "2", TRUE) >>

====
